---- MODULE Spec2Model ----
(***************************************************************************)
(* Model of src/App.tsx of CalansPartParser: the field specification       *)
(* catalog and its matchers, parseToken, the merging tokenizer             *)
(* tokenizeLine, parseLine and the aggregation populateSpecFields.         *)
(*                                                                         *)
(* Strings are TLA+ strings; a matcher's result (string | null) is a       *)
(* sequence holding at most one string, <<>> standing for null/undefined.  *)
(***************************************************************************)
EXTENDS Integers, Sequences, FiniteSets, TLC

\* Largest number of comma-separated candidates in a generated line.
MaxCands == 4

----------------------------------------------------------------------------
(* String helpers: what the regular expressions of the catalog read.       *)

Char(s, k) == SubSeq(s, k, k)

Drop(s, n) == SubSeq(s, n + 1, Len(s))

StartsWith(s, p) == Len(s) >= Len(p) /\ SubSeq(s, 1, Len(p)) = p

\* \d
IsDigit(c) == c \in {"0", "1", "2", "3", "4", "5", "6", "7", "8", "9"}

\* ^\d+$
AllDigits(s) == Len(s) >= 1 /\ \A k \in 1..Len(s) : IsDigit(Char(s, k))

\* ^\d\d\d$
ThreeDigits(s) == Len(s) = 3 /\ AllDigits(s)

\* s.match(/\d+/): the first maximal run of digits, <<>> when there is none.
FirstDigitRun(s) ==
  LET starts == {k \in 1..Len(s) : IsDigit(Char(s, k))}
  IN  IF starts = {} THEN <<>>
      ELSE LET a == CHOOSE k \in starts : \A j \in starts : k <= j
               b == CHOOSE k \in a..Len(s) :
                      /\ \A j \in a..k : IsDigit(Char(s, j))
                      /\ (k = Len(s) \/ ~IsDigit(Char(s, k + 1)))
           IN  <<SubSeq(s, a, b)>>

----------------------------------------------------------------------------
(* The matchers of SPECIFICATION, one operator per match function.         *)

\* /^((FLANGE)|(FLNG)|(FLG))$/
MatchFlange(s) == IF s \in {"FLANGE", "FLNG", "FLG"} THEN <<"FLANGE">> ELSE <<>>

\* /^PIPE$/
MatchPipe(s) == IF s = "PIPE" THEN <<"PIPE">> ELSE <<>>

\* /^(\d+(?:\.\d)?)\"$/, the value is capture group 1
MatchInches(s) ==
  LET n    == Len(s)
      body == SubSeq(s, 1, n - 1)
      ok   == /\ n >= 2
              /\ Char(s, n) = "\""
              /\ \/ AllDigits(body)
                 \/ /\ n >= 4
                    /\ AllDigits(SubSeq(s, 1, n - 3))
                    /\ Char(s, n - 2) = "."
                    /\ IsDigit(Char(s, n - 1))
  IN  IF ok THEN <<body>> ELSE <<>>

\* The language of FLA?NGE? preceded by a space.
FlangeSuffix == {" FL" \o a \o "NG" \o e : a \in {"", "A"}, e \in {"", "E"}}

\* The language of /^((WE?LD ?NE?CK( FLA?NGE?)?)|(WNF?)(WELD))$/
WeldNeckLanguage ==
  {"W" \o e1 \o "LD" \o sp \o "N" \o e2 \o "CK" \o suf :
      e1 \in {"", "E"}, sp \in {"", " "}, e2 \in {"", "E"},
      suf \in {""} \cup FlangeSuffix}
  \cup {"WN" \o f \o "WELD" : f \in {"", "F"}}

MatchWeldNeck(s) == IF s \in WeldNeckLanguage THEN <<"WELD NECK">> ELSE <<>>

\* /^((\d\d\d\#)|(\d\d\d (LB)|(PSI))|(CL \d\d\d))$/ : inside the outer group
\* the alternatives are  \d\d\d#  |  \d\d\d LB  |  PSI  |  CL \d\d\d ;
\* the value is (s.match(/\d+/) || [])[0], undefined when s has no digit.
PoundsPattern(s) ==
  \/ Len(s) = 4 /\ ThreeDigits(SubSeq(s, 1, 3)) /\ Drop(s, 3) = "#"
  \/ Len(s) = 6 /\ ThreeDigits(SubSeq(s, 1, 3)) /\ Drop(s, 3) = " LB"
  \/ s = "PSI"
  \/ Len(s) = 6 /\ SubSeq(s, 1, 3) = "CL " /\ ThreeDigits(Drop(s, 3))

\* Mutant: the whole match m[0] is returned instead of the digits.
MatchPoundsWholeToken(s) == IF PoundsPattern(s) THEN <<s>> ELSE <<>>

MatchPounds(s) == IF PoundsPattern(s) THEN FirstDigitRun(s) ELSE <<>>

\* /^S(?:CH(?:EDULE)?)?[\- ](\d+)$/, the value is capture group 1
MatchScheduleInches(s) ==
  LET heads == {p \o sep : p \in {"S", "SCH", "SCHEDULE"}, sep \in {"-", " "}}
      hit   == {h \in heads : StartsWith(s, h) /\ AllDigits(Drop(s, Len(h)))}
  IN  IF hit = {} THEN <<>>
      ELSE <<Drop(s, Len(CHOOSE h \in hit : TRUE))>>

\* /^(S(CH(EDULE)?)? (STD)|(STANDARD))$/ : inside the outer group the
\* alternatives are  S(CH(EDULE)?)? STD  |  STANDARD
ScheduleStandardLanguage ==
  {p \o " STD" : p \in {"S", "SCH", "SCHEDULE"}} \cup {"STANDARD"}

MatchScheduleStandard(s) ==
  IF s \in ScheduleStandardLanguage THEN <<"STANDARD">> ELSE <<>>

\* /^((XH)|(XHB)|(EXTRA HEAVY))$/
MatchExtraHeavy(s) ==
  IF s \in {"XH", "XHB", "EXTRA HEAVY"} THEN <<"EXTRA HEAVY">> ELSE <<>>

\* /^(ASME B\d+\.?\d+?)$/, the value is the whole match
MatchAsme(s) ==
  LET r  == Drop(s, 6)
      ok == /\ StartsWith(s, "ASME B")
            /\ \E k \in 1..(Len(r) - 1) :
                  /\ AllDigits(SubSeq(r, 1, k))
                  /\ \/ AllDigits(Drop(r, k))
                     \/ Char(r, k + 1) = "." /\ AllDigits(Drop(r, k + 1))
  IN  IF ok THEN <<s>> ELSE <<>>

\* /^(?:FCS )?(S?A\d\d\dN?)$/, the value is capture group 1
SteelCode(c) ==
  LET c1 == IF StartsWith(c, "S") THEN Drop(c, 1) ELSE c
      c2 == IF Len(c1) >= 1 /\ Char(c1, Len(c1)) = "N"
            THEN SubSeq(c1, 1, Len(c1) - 1) ELSE c1
  IN  Len(c2) = 4 /\ Char(c2, 1) = "A" /\ ThreeDigits(Drop(c2, 1))

MatchSteelType(s) ==
  LET c == IF StartsWith(s, "FCS ") THEN Drop(s, 4) ELSE s
  IN  IF SteelCode(c) THEN <<c>> ELSE <<>>

\* /^((CS)|(CARBON( STEEL)?))$/
MatchCarbonSteel(s) ==
  IF s \in {"CS", "CARBON", "CARBON STEEL"} THEN <<"CARBON STEEL">> ELSE <<>>

\* The catalog: fields in order, each with its matchers' kinds in order.
SPECIFICATION ==
  << [kind |-> "PRODUCT TYPE",       matchers |-> <<"FLANGE", "PIPE">>],
     [kind |-> "SIZE",               matchers |-> <<"INCHES">>],
     [kind |-> "FLANGE TYPE",        matchers |-> <<"WELD NECK">>],
     [kind |-> "PRESSURE RATING",    matchers |-> <<"POUNDS">>],
     [kind |-> "BORE SCHEDULE SIZE",
      matchers |-> <<"SCHEDULE INCHES", "SCHEDULE STANDARD",
                     "SCHEDULE EXTRA HEAVY">>],
     [kind |-> "MATERIAL",
      matchers |-> <<"ASME STANDARD", "STEEL TYPE", "CARBON STEEL">>] >>

\* field_matcher.match(s) for the matcher of the given kind.
match(kind, s) ==
  CASE kind = "FLANGE"               -> MatchFlange(s)
    [] kind = "PIPE"                 -> MatchPipe(s)
    [] kind = "INCHES"               -> MatchInches(s)
    [] kind = "WELD NECK"            -> MatchWeldNeck(s)
    [] kind = "POUNDS"               -> MatchPounds(s)
    [] kind = "SCHEDULE INCHES"      -> MatchScheduleInches(s)
    [] kind = "SCHEDULE STANDARD"    -> MatchScheduleStandard(s)
    [] kind = "SCHEDULE EXTRA HEAVY" -> MatchExtraHeavy(s)
    [] kind = "ASME STANDARD"        -> MatchAsme(s)
    [] kind = "STEEL TYPE"           -> MatchSteelType(s)
    [] kind = "CARBON STEEL"         -> MatchCarbonSteel(s)

----------------------------------------------------------------------------
(* parseToken                                                              *)

\* Concatenation of a sequence of sequences, in order.
RECURSIVE Flatten(_)
Flatten(ss) == IF ss = <<>> THEN <<>> ELSE Head(ss) \o Flatten(Tail(ss))

\* if (value): a matcher's result counts when it is a non-empty string.
Truthy(value) == value # <<>> /\ value[1] # ""

\* The inner loop of parseToken over one field's matchers.
FieldMatches(spec_field, token) ==
  Flatten([m \in 1..Len(spec_field.matchers) |->
    LET value == match(spec_field.matchers[m], token)
    IN  IF Truthy(value)
        THEN << [spec_field_kind    |-> spec_field.kind,
                 field_match_kind   |-> spec_field.matchers[m],
                 standardized_value |-> value[1]] >>
        ELSE <<>>])

parseToken(token) ==
  [token   |-> token,
   matches |-> Flatten([f \in 1..Len(SPECIFICATION) |->
                          FieldMatches(SPECIFICATION[f], token)])]

----------------------------------------------------------------------------
(* tokenizeLine                                                            *)

\* line.split(/, ?/): a comma and the space after it, if any, separate two
\* candidates; the empty line splits into one empty candidate.
RECURSIVE SplitFrom(_, _, _)
SplitFrom(s, k, cur) ==
  IF k > Len(s) THEN <<cur>>
  ELSE IF Char(s, k) = ","
       THEN <<cur>> \o SplitFrom(s, IF k < Len(s) /\ Char(s, k + 1) = " "
                                   THEN k + 2 ELSE k + 1, "")
       ELSE SplitFrom(s, k + 1, cur \o Char(s, k))

split(s) == SplitFrom(s, 1, "")

\* Mutant: the template lacks the space between its first two candidates.
Window3NoSpace(cs, c) ==
  cs[c + 1].token \o cs[c + 2].token \o " " \o cs[c + 3].token

\* `${candidates[i].token} ${candidates[i + 1].token} ${candidates[i + 2].token}`
\* for the 0-based cursor c over the 1-based sequence cs.
Window3(cs, c) ==
  cs[c + 1].token \o " " \o cs[c + 2].token \o " " \o cs[c + 3].token

\* `${candidates[i].token} ${candidates[i + 1].token}}` : the template ends
\* with a literal closing brace.
Window2(cs, c) == cs[c + 1].token \o " " \o cs[c + 2].token \o "}"

\* Mutant: the comparison is > 1.
AcceptsTwoOrMore(s) == Len(parseToken(s).matches) > 1

\* Mutant: the comparison is >= 0.
AcceptsAny(s) == Len(parseToken(s).matches) >= 0

\* parseToken(s).matches.length > 0
Accepts(s) == Len(parseToken(s).matches) > 0

----------------------------------------------------------------------------
(* populateSpecFields                                                      *)

\* Mutant: the test of the match's field kind is missing.
PopulateFieldNoFilter(spec_field, match_results) ==
  [kind    |-> spec_field.kind,
   matches |-> Flatten([k \in 1..Len(match_results) |->
     [m \in 1..Len(match_results[k].matches) |->
        [kind  |-> match_results[k].matches[m].field_match_kind,
         token |-> match_results[k].token,
         value |-> match_results[k].matches[m].standardized_value]]])]

\* Mutant: entries are put in front (unshift) instead of appended (push).
PopulateFieldReversed(spec_field, match_results) ==
  [kind    |-> spec_field.kind,
   matches |-> Flatten([k \in 1..Len(match_results) |->
     LET mr == match_results[Len(match_results) + 1 - k]
     IN  Flatten([m \in 1..Len(mr.matches) |->
           LET mt == mr.matches[Len(mr.matches) + 1 - m]
           IN  IF mt.spec_field_kind = spec_field.kind
               THEN << [kind  |-> mt.field_match_kind,
                        token |-> mr.token,
                        value |-> mt.standardized_value] >>
               ELSE <<>>])])]

\* The loops over match_results and their matches for one catalog field.
PopulateField(spec_field, match_results) ==
  [kind    |-> spec_field.kind,
   matches |-> Flatten([k \in 1..Len(match_results) |->
     Flatten([m \in 1..Len(match_results[k].matches) |->
       LET mt == match_results[k].matches[m]
       IN  IF mt.spec_field_kind = spec_field.kind
           THEN << [kind  |-> mt.field_match_kind,
                    token |-> match_results[k].token,
                    value |-> mt.standardized_value] >>
           ELSE <<>>])])]

\* Mutant: the filter also wants a non-empty token.
IsUnmatchedNonEmpty(mr) == Len(mr.matches) = 0 /\ mr.token # ""

\* match_results.filter(mr => mr.matches.length == 0)
IsUnmatched(mr) == Len(mr.matches) = 0

\* The extra field for unmatched tokens.
Unrecognized(match_results) ==
  LET un == SelectSeq(match_results, IsUnmatched)
  IN  [kind    |-> "UNRECOGNIZED",
       matches |-> [k \in 1..Len(un) |->
                      [kind  |-> "UNRECOGNIZED",
                       token |-> un[k].token,
                       value |-> un[k].token]]]

populateSpecFields(match_results) ==
  [f \in 1..Len(SPECIFICATION) |->
      PopulateField(SPECIFICATION[f], match_results)]
  \o <<Unrecognized(match_results)>>

----------------------------------------------------------------------------
(* The input lines.                                                        *)

getTestLines ==
  << "PIPE, SCH STD, CS A-106B/A-53B/API 5L-B SMLS, P/D CODE PSA01 BBE, 3\"",
     "FLG, RFSO, CL 150, SCH STD, FCS A105, ASME B16.5, P/D CODE FSA01, 20\"",
     "FLG BLIND, RF,CL 150, FCS A105 ASME B16.5, 20\"",
     "FLG, RFWN, CL 150, SCH STD, FCS A105 ASME B16.5, P/D CODE FWA01, 24\"" >>

\* Candidates that generated multi-candidate lines are built from.
CandVocab == {"", "CARBON", "STEEL", "WELD", "NECK", "FLANGE"}

\* Digits used to build three-digit numbers.
DigitSample == {"0", "1", "5"}

Digits3 == {a \o b \o c : a \in DigitSample, b \in DigitSample, c \in DigitSample}

\* Lines of a single candidate: the vocabulary of the catalog and near misses.
TokenVocab ==
  {d \o suf : d \in Digits3, suf \in {" PSI", " LB", "#", "PSI", ""}}
  \cup {"CL " \o d : d \in Digits3}
  \cup {p \o sep \o q : p \in {"S", "SCH", "SCHEDULE", ""}, sep \in {" ", "-", ""},
                        q \in {"STD", "STANDARD", "40", ""}}
  \cup {"PSI", "LB", "CL", "FLG", "FLNG", "FLANGE", "XFLANGE", "PIPE", "3\"",
        "1.5\"", "XH", "XHB", "EXTRA HEAVY", "WNWELD", "WNF", "WLD NCK",
        "A105", "FCS A105", "SA105N", "ASME B16.5", "ASME B1", "CS",
        "CARBON STEEL", "FCS A105 ASME B16.5"}

RECURSIVE Join(_, _)
Join(ws, delim) ==
  IF Len(ws) = 1 THEN ws[1] ELSE ws[1] \o delim \o Join(Tail(ws), delim)

Lines ==
  {getTestLines[k] : k \in 1..Len(getTestLines)}
  \cup TokenVocab
  \cup {"SCH, 40", "SCH,40", "S, STD", "CL, 150", "FLG, CS, 150 PSI, STANDARD",
        "RF, WELD, NECK, FLANGE, RF", "WLD,NCK,FLNG,FLG", "RF,, RF"}
  \cup {Join(ws, delim) :
          ws \in UNION {[1..n -> CandVocab] : n \in 1..MaxCands},
          delim \in {",", ", "}}

----------------------------------------------------------------------------
(* The pipeline of App for one line: parseLine(line), which runs           *)
(* tokenizeLine, then populateSpecFields.                                  *)

VARIABLES
  line,              \* the input line
  candidates,        \* tokenizeLine: line.split(/, ?/).map(parseToken)
  i,                 \* tokenizeLine: the loop cursor (0-based)
  result,            \* tokenizeLine: the final tokens emitted so far
  match_results,     \* parseLine's return value
  populated_fields,  \* populateSpecFields' return value
  pc                 \* "start", "loop", "parsed", "done"

vars == <<line, candidates, i, result, match_results, populated_fields, pc>>

Init ==
  /\ line \in Lines
  /\ candidates = <<>>
  /\ i = 0
  /\ result = <<>>
  /\ match_results = <<>>
  /\ populated_fields = <<>>
  /\ pc = "start"

\* tokenizeLine up to the loop: the candidates are split off and parsed.
TokenizeStart ==
  /\ pc = "start"
  /\ candidates' = LET raw == split(line)
                   IN  [k \in 1..Len(raw) |-> parseToken(raw[k])]
  /\ i' = 0
  /\ result' = <<>>
  /\ pc' = "loop"
  /\ UNCHANGED <<line, match_results, populated_fields>>

\* One iteration of tokenizeLine's loop, the i++ of the for included.
TokenizeStep ==
  /\ pc = "loop"
  /\ i < Len(candidates)
  /\ IF Len(candidates) - i >= 3 /\ Accepts(Window3(candidates, i))
     THEN /\ result' = Append(result, Window3(candidates, i))
          /\ i' = (i + 2) + 1
     ELSE IF Len(candidates) - i >= 2 /\ Accepts(Window2(candidates, i))
     THEN /\ result' = Append(result, Window2(candidates, i))
          /\ i' = (i + 1) + 1
     ELSE /\ result' = Append(result, candidates[i + 1].token)
          /\ i' = i + 1
  /\ UNCHANGED <<line, candidates, match_results, populated_fields, pc>>

\* tokenizeLine returns result and parseLine maps parseToken over it.
parseLine ==
  /\ pc = "loop"
  /\ ~(i < Len(candidates))
  /\ match_results' = [k \in 1..Len(result) |-> parseToken(result[k])]
  /\ pc' = "parsed"
  /\ UNCHANGED <<line, candidates, i, result, populated_fields>>

\* App: populateSpecFields(pl) for the parsed line.
PopulateSpecFields ==
  /\ pc = "parsed"
  /\ populated_fields' = populateSpecFields(match_results)
  /\ pc' = "done"
  /\ UNCHANGED <<line, candidates, i, result, match_results>>

Next == TokenizeStart \/ TokenizeStep \/ parseLine \/ PopulateSpecFields

Spec == Init /\ [][Next]_vars

----------------------------------------------------------------------------
(* Properties.                                                             *)

\* The candidates of the line, as strings, once tokenizeLine has split it.
Cands == [k \in DOMAIN candidates |-> candidates[k].token]

\* A string has at least one catalog match.
Matched(s) == parseToken(s).matches # <<>>

\* candidate[c] + " " + candidate[c+1] for the 0-based cursor c.
Merge2At(c) == Cands[c + 1] \o " " \o Cands[c + 2]

\* candidate[c] + " " + candidate[c+1] + " " + candidate[c+2].
Merge3At(c) == Cands[c + 1] \o " " \o Cands[c + 2] \o " " \o Cands[c + 3]

\* The 3-way window at the cursor exists and has a catalog match.
ThreeWayMatches == Len(Cands) - i >= 3 /\ Matched(Merge3At(i))

AtCursor == pc = "loop" /\ i < Len(Cands)

\* The populated field of the given kind, and its values in order.
FieldOf(kind) ==
  populated_fields[CHOOSE f \in DOMAIN populated_fields :
                      populated_fields[f].kind = kind]

ValuesOf(kind) ==
  [k \in DOMAIN FieldOf(kind).matches |-> FieldOf(kind).matches[k].value]

TokensOf(kind) ==
  {FieldOf(kind).matches[k].token : k \in DOMAIN FieldOf(kind).matches}

InSeq(x, seq) == \E k \in DOMAIN seq : seq[k] = x

\* C1: at a cursor with at least 2 candidates left, no accepted 3-way window
\* and a 2-way merge candidate[i] + " " + candidate[i+1] that has a catalog
\* match, the step emits exactly that merge and advances the cursor by 2.
C1_TwoWayMerge ==
  [][ (AtCursor /\ Len(Cands) - i >= 2 /\ ~ThreeWayMatches
         /\ Matched(Merge2At(i)))
      => (result' = Append(result, Merge2At(i)) /\ i' = i + 2) ]_vars

\* C2: at a cursor with at least 3 candidates left whose 3-way merge has a
\* catalog match, the step emits that merge as one token and advances the
\* cursor by exactly 3, whatever the candidates match on their own; the line
\* "WELD, NECK, FLANGE" ends as the single token "WELD NECK FLANGE" with no
\* PRODUCT TYPE match.
C2_ThreeWayGreedy ==
  [][ /\ (AtCursor /\ ThreeWayMatches)
         => (result' = Append(result, Merge3At(i)) /\ i' = i + 3)
      /\ (pc' = "done" /\ line = "WELD, NECK, FLANGE")
         => /\ result' = <<"WELD NECK FLANGE">>
            /\ populated_fields'[1].kind = "PRODUCT TYPE"
            /\ populated_fields'[1].matches = <<>> ]_vars

\* A 3-way window was accepted although its last candidate matches a rule on
\* its own and the 2-way merge of its first two candidates matches too.
C2_Witness ==
  /\ pc = "loop" /\ i >= 3 /\ result # <<>>
  /\ result[Len(result)] = Merge3At(i - 3)
  /\ Matched(Cands[i])
  /\ Matched(Merge2At(i - 3))
  /\ i < Len(Cands)

\* ts is cs cut into consecutive groups of 1, 2 or 3 candidates, each group
\* joined by single spaces.
RECURSIVE Partitioned(_, _)
Partitioned(ts, cs) ==
  IF ts = <<>> THEN cs = <<>>
  ELSE \E n \in 1..3 :
         /\ n <= Len(cs)
         /\ Head(ts) = Join(SubSeq(cs, 1, n), " ")
         /\ Partitioned(Tail(ts), SubSeq(cs, n + 1, Len(cs)))

\* C3: the candidates are the delimiter split of the line, in order; the
\* tokens emitted so far partition the candidates before the cursor
\* into consecutive groups of 1, 2 or 3, each token being its group joined by
\* single spaces; at the end every candidate is covered and parseLine keeps
\* the tokens and their order.
C3_TokenCoverage ==
  pc # "start" =>
    /\ Cands = split(line)
    /\ i <= Len(Cands)
    /\ Partitioned(result, SubSeq(Cands, 1, i))
    /\ pc \in {"parsed", "done"} =>
         /\ i = Len(Cands)
         /\ match_results = [k \in DOMAIN result |-> parseToken(result[k])]

\* A finished line whose tokens hold a merged group and single candidates.
C3_Witness ==
  /\ pc = "done"
  /\ Len(Cands) >= 4
  /\ Len(result) = Len(Cands) - 2
  /\ \E k \in DOMAIN result : ~InSeq(result[k], Cands)

\* Entries of a populated field that carry the token t.
EntriesWith(field, t) ==
  Cardinality({k \in DOMAIN field.matches : field.matches[k].token = t})

ResultsWith(t) ==
  Cardinality({k \in DOMAIN match_results : match_results[k].token = t})

RECURSIVE SumLen(_)
SumLen(ss) == IF ss = <<>> THEN 0 ELSE Len(Head(ss).matches) + SumLen(Tail(ss))

NumFields == Len(SPECIFICATION)

\* C4: a result without matches is in UNRECOGNIZED exactly once and in no
\* catalog field; a result with matches is in no UNRECOGNIZED entry and has
\* one entry per match in exactly the field the match names; the catalog
\* fields hold as many entries as there are matches.
C4_Partition ==
  pc = "done" =>
    /\ \A k \in DOMAIN match_results :
         LET mr == match_results[k]
             t  == mr.token
             un == populated_fields[NumFields + 1]
         IN  IF mr.matches = <<>>
             THEN /\ EntriesWith(un, t) = ResultsWith(t)
                  /\ \A f \in 1..NumFields : EntriesWith(populated_fields[f], t) = 0
             ELSE /\ EntriesWith(un, t) = 0
                  /\ \A f \in 1..NumFields :
                       EntriesWith(populated_fields[f], t) =
                         ResultsWith(t) *
                         Cardinality({m \in DOMAIN mr.matches :
                            mr.matches[m].spec_field_kind = populated_fields[f].kind})
                  /\ Cardinality({f \in 1..NumFields :
                                    EntriesWith(populated_fields[f], t) > 0})
                     = Cardinality({mr.matches[m].spec_field_kind :
                                      m \in DOMAIN mr.matches})
    /\ SumLen(SubSeq(populated_fields, 1, NumFields)) = SumLen(match_results)
    /\ Len(populated_fields[NumFields + 1].matches)
         = Cardinality({k \in DOMAIN match_results : match_results[k].matches = <<>>})

\* An aggregated line with matched tokens of two fields and unmatched ones.
C4_Witness ==
  /\ pc = "done"
  /\ Len(populated_fields[NumFields + 1].matches) >= 2
  /\ Cardinality({f \in 1..NumFields : populated_fields[f].matches # <<>>}) >= 2

Scenario3 == getTestLines[3]

\* C5 as stated: scenario 3 has MATERIAL values including "A105" and
\* "ASME B16.5", PRESSURE RATING value "150" and SIZE value "20".
C5_Scenario3Material ==
  (pc = "done" /\ line = Scenario3) =>
    /\ InSeq("A105", ValuesOf("MATERIAL"))
    /\ InSeq("ASME B16.5", ValuesOf("MATERIAL"))
    /\ ValuesOf("PRESSURE RATING") = <<"150">>
    /\ ValuesOf("SIZE") = <<"20">>

\* C5 amended: scenario 3 has no MATERIAL value; "FCS A105 ASME B16.5" stays
\* one token and is reported in UNRECOGNIZED, with "FLG BLIND" and "RF";
\* PRESSURE RATING has value "150" and SIZE has value "20".
C5_Scenario3Unrecognized ==
  (pc = "done" /\ line = Scenario3) =>
    /\ ValuesOf("MATERIAL") = <<>>
    /\ ValuesOf("UNRECOGNIZED") = <<"FLG BLIND", "RF", "FCS A105 ASME B16.5">>
    /\ ValuesOf("PRESSURE RATING") = <<"150">>
    /\ ValuesOf("SIZE") = <<"20">>

C5_Witness == pc = "done" /\ line = Scenario3 /\ Len(result) = 5

\* The POUNDS match the claim expects for a token whose digits are d.
PoundsMatch(d) ==
  [spec_field_kind |-> "PRESSURE RATING", field_match_kind |-> "POUNDS",
   standardized_value |-> d]

\* C6: three digits + " PSI", three digits + " LB" and "CL " + three digits
\* are classified PRESSURE RATING / POUNDS with the three digits as value; a
\* token without digits is never classified PRESSURE RATING.
C6_PoundsVocabulary ==
  pc = "done" =>
    \A k \in DOMAIN match_results :
      LET t == match_results[k].token
      IN  /\ \A d \in Digits3 :
                t \in {d \o " PSI", d \o " LB", "CL " \o d}
                  => InSeq(PoundsMatch(d), match_results[k].matches)
          /\ FirstDigitRun(t) = <<>>
                => \A m \in DOMAIN match_results[k].matches :
                     match_results[k].matches[m].spec_field_kind # "PRESSURE RATING"

\* The tokens the claim says SCHEDULE STANDARD recognizes.
ClaimedScheduleStandard ==
  {p \o " " \o q : p \in {"S", "SCH", "SCHEDULE"}, q \in {"STD", "STANDARD"}}

\* C7: a token has a SCHEDULE STANDARD match (value "STANDARD") if and only
\* if it is S, SCH or SCHEDULE, one space, then STD or STANDARD.
C7_ScheduleStandardIff ==
  pc = "done" =>
    \A k \in DOMAIN match_results :
      InSeq([spec_field_kind |-> "BORE SCHEDULE SIZE",
             field_match_kind |-> "SCHEDULE STANDARD",
             standardized_value |-> "STANDARD"], match_results[k].matches)
      <=> match_results[k].token \in ClaimedScheduleStandard

CountOf(x, seq) == Cardinality({k \in DOMAIN seq : seq[k] = x})

\* C8: the cursor stays within the candidates, so every read of the loop is
\* defined; every empty candidate is emitted as its own token "", which has
\* no match and is reported in UNRECOGNIZED with token "" and value "".
C8_EmptyCandidates ==
  /\ pc # "start" =>
       /\ Cands = split(line) /\ i <= Len(Cands)
       /\ CountOf("", result) = CountOf("", SubSeq(Cands, 1, i))
  /\ pc \in {"parsed", "done"} =>
       /\ CountOf("", result) = CountOf("", Cands)
       /\ \A k \in DOMAIN match_results :
            match_results[k].token = "" => match_results[k].matches = <<>>
  /\ pc = "done" =>
       LET un == populated_fields[NumFields + 1].matches
       IN  /\ CountOf([kind |-> "UNRECOGNIZED", token |-> "", value |-> ""], un)
                = CountOf("", Cands)
           /\ \A k \in DOMAIN un : un[k].token = "" => un[k].value = ""

\* A finished line with a leading, a doubled or a trailing comma next to
\* candidates that merge when they are adjacent.
C8_Witness ==
  /\ pc = "done"
  /\ CountOf("", Cands) >= 2
  /\ InSeq("WELD", Cands) /\ InSeq("NECK", Cands)
  /\ CountOf("", ValuesOf("UNRECOGNIZED")) = CountOf("", Cands)

\* The entries of the field of catalog position f, enumerated by token
\* position and then by match position.
RECURSIVE EntriesFrom(_, _, _)
EntriesFrom(f, k, m) ==
  IF k > Len(match_results) THEN <<>>
  ELSE IF m > Len(match_results[k].matches) THEN EntriesFrom(f, k + 1, 1)
  ELSE LET mt == match_results[k].matches[m]
       IN  (IF mt.spec_field_kind = SPECIFICATION[f].kind
            THEN << [kind |-> mt.field_match_kind,
                     token |-> match_results[k].token,
                     value |-> mt.standardized_value] >>
            ELSE <<>>) \o EntriesFrom(f, k, m + 1)

ColumnKinds ==
  <<"PRODUCT TYPE", "SIZE", "FLANGE TYPE", "PRESSURE RATING",
    "BORE SCHEDULE SIZE", "MATERIAL", "UNRECOGNIZED">>

\* C9: the result has one field per catalog field in catalog order, then
\* UNRECOGNIZED as the last element, also for the empty list; the entries of
\* a field follow the position of their token, then the token's match order.
C9_ShapeAndOrder ==
  /\ [f \in DOMAIN populateSpecFields(<<>>) |-> populateSpecFields(<<>>)[f].kind]
       = ColumnKinds
  /\ \A f \in DOMAIN populateSpecFields(<<>>) :
       populateSpecFields(<<>>)[f].matches = <<>>
  /\ pc = "done" =>
       /\ [f \in DOMAIN populated_fields |-> populated_fields[f].kind] = ColumnKinds
       /\ \A f \in 1..NumFields :
            populated_fields[f].matches = EntriesFrom(f, 1, 1)

\* A finished line with two different tokens in one field.
C9_Witness ==
  /\ pc = "done"
  /\ \E f \in 1..NumFields :
       /\ Len(populated_fields[f].matches) >= 2
       /\ populated_fields[f].matches[1].token # populated_fields[f].matches[2].token

\* C10: a final token without a catalog match is a single, unmodified
\* candidate, so every UNRECOGNIZED entry is a candidate of the line and
\* every merged token has at least one match.
C10_MergedRecognized ==
  /\ \A k \in DOMAIN result : ~Matched(result[k]) => InSeq(result[k], Cands)
  /\ pc \in {"parsed", "done"} =>
       \A k \in DOMAIN match_results :
         ~InSeq(match_results[k].token, Cands) => match_results[k].matches # <<>>
  /\ pc = "done" =>
       \A t \in TokensOf("UNRECOGNIZED") : InSeq(t, Cands)

\* A finished line with a merged token and unrecognized candidates.
C10_Witness ==
  /\ pc = "done"
  /\ \E k \in DOMAIN result : ~InSeq(result[k], Cands)
  /\ FieldOf("UNRECOGNIZED").matches # <<>>

====
